---- MODULE Spec2Model ----
(***************************************************************************)
(* Model of Controller/src/api/helper/validate.rs: validate_request, the   *)
(* validator of a traffic generation request (streams, per-port settings,  *)
(* generation mode, Tofino2 capability).                                   *)
(*                                                                         *)
(* validate_request is a pure function.  It is modelled by the operator    *)
(* validate_request, written check by check in the order of the source;    *)
(* every `if` of the source is a definition of its own.  The caller is the *)
(* state machine: it holds a request, calls the validator (Validate) and   *)
(* may submit an accepted request again with one more setting (Resubmit).  *)
(***************************************************************************)
EXTENDS Integers, Sequences, FiniteSets, TLC

VARIABLES streams, settings, mode, is_tofino2, overflow_checks, pc, result, first

vars == <<streams, settings, mode, is_tofino2, overflow_checks, pc, result, first>>

(***************************************************************************)
(* Bounds of the model.                                                    *)
(***************************************************************************)
MaxStreams == 2
MaxSettings == 2

(***************************************************************************)
(* Option<T>: None is the empty sequence, Some(v) the sequence <<v>>.      *)
(***************************************************************************)
None == <<>>
Some(v) == <<v>>
is_none(o) == Len(o) = 0
unwrap(o) == o[1]
unwrap_or(o, d) == IF Len(o) = 0 THEN d ELSE o[1]

(***************************************************************************)
(* u32 as two 16-bit limbs, so that sums of 2^32 and more are computed as  *)
(* the machine computes them.                                              *)
(***************************************************************************)
Limb == 2^16
U32(hi, lo) == [hi |-> hi, lo |-> lo]
\* a + b on 32 bits: the wrapped value, and whether the true sum left the range
AddU32(a, b) ==
    LET lo == a.lo + b.lo
        hi == a.hi + b.hi + (lo \div Limb)
    IN  [val |-> U32(hi % Limb, lo % Limb), overflow |-> hi >= Limb]
GtU32(a, b) == a.hi > b.hi \/ (a.hi = b.hi /\ a.lo > b.lo)

(***************************************************************************)
(* Constants of core/traffic_gen_core/const_definitions.rs.                *)
(***************************************************************************)
MAX_BUFFER_SIZE == 12000
MAX_NUM_MPLS_LABEL == 15
MAX_NUM_SRV6_SIDS == 3
TG_MAX_RATE == 100
TG_MAX_RATE_TF2 == 400

(***************************************************************************)
(* Result<(), Error>.  An Error carries one message; the model keeps the   *)
(* message's name (reason) and the stream id and port formatted into it.   *)
(* Panic is the abort of the call: unwrap() of None, or an arithmetic      *)
(* overflow in a build with overflow checks.  Continue is "no return yet". *)
(***************************************************************************)
Ok == [kind |-> "Ok", reason |-> "", stream_id |-> 0, port |-> 0]
Err(reason, stream_id, port) ==
    [kind |-> "Err", reason |-> reason, stream_id |-> stream_id, port |-> port]
Panic(reason) == [kind |-> "Panic", reason |-> reason, stream_id |-> 0, port |-> 0]
Continue == [kind |-> "Continue", reason |-> "", stream_id |-> 0, port |-> 0]
Pending == [kind |-> "Pending", reason |-> "", stream_id |-> 0, port |-> 0]

(***************************************************************************)
(* 1. Per-stream structural checks, lines 31-59.                           *)
(***************************************************************************)
\* line 32
LseMissing(stream) == is_none(stream.number_of_lse)
\* line 36; the unwrap() aborts on None
LseExceeded(stream) == unwrap(stream.number_of_lse) > MAX_NUM_MPLS_LABEL
\* line 40
LseZero(stream) == unwrap(stream.number_of_lse) = 0
\* line 44
Srv6Unsupported(tofino2) == ~tofino2
\* line 48
SidsMissing(stream) == is_none(stream.number_of_srv6_sids)
\* line 52
SidsExceeded(stream) == unwrap(stream.number_of_srv6_sids) > MAX_NUM_SRV6_SIDS
\* line 56
SidsZero(stream) == unwrap(stream.number_of_srv6_sids) = 0

MplsStructural(stream) ==
    IF LseMissing(stream)
    THEN Err("number_of_lse missing", stream.stream_id, 0)
    ELSE IF is_none(stream.number_of_lse) THEN Panic("unwrap on None")
    ELSE IF LseExceeded(stream)
    THEN Err("number of LSEs exceeded maximum", stream.stream_id, 0)
    ELSE IF LseZero(stream)
    THEN Err("#LSE is zero", stream.stream_id, 0)
    ELSE Continue

\* the capability check of line 44 moved behind the checks of the SID count
Srv6Structural_CapabilityLast(stream, tofino2) ==
    IF SidsMissing(stream)
    THEN Err("number_of_srv6_sids missing", stream.stream_id, 0)
    ELSE IF SidsExceeded(stream)
    THEN Err("number of SIDs exceeded maximum", stream.stream_id, 0)
    ELSE IF SidsZero(stream)
    THEN Err("#SIDs is zero", stream.stream_id, 0)
    ELSE IF Srv6Unsupported(tofino2)
    THEN Err("SRv6 is only supported on Tofino2", 0, 0)
    ELSE Continue

Srv6Structural(stream, tofino2) ==
    IF Srv6Unsupported(tofino2)
    THEN Err("SRv6 is only supported on Tofino2", 0, 0)
    ELSE IF SidsMissing(stream)
    THEN Err("number_of_srv6_sids missing", stream.stream_id, 0)
    ELSE IF is_none(stream.number_of_srv6_sids) THEN Panic("unwrap on None")
    ELSE IF SidsExceeded(stream)
    THEN Err("number of SIDs exceeded maximum", stream.stream_id, 0)
    ELSE IF SidsZero(stream)
    THEN Err("#SIDs is zero", stream.stream_id, 0)
    ELSE Continue

StructuralChecks(stream, tofino2) ==
    IF stream.encapsulation = "Mpls" THEN MplsStructural(stream)
    ELSE IF stream.encapsulation = "SRv6" THEN Srv6Structural(stream, tofino2)
    ELSE Continue

(***************************************************************************)
(* 2. Checks of a setting against the stream it belongs to, lines 63-102.  *)
(***************************************************************************)
\* line 64
VlanMissing(stream, setting) ==
    /\ stream.encapsulation = "Vlan" \/ stream.encapsulation = "QinQ"
    /\ is_none(setting.vlan)
\* line 70 without its check: an absent mpls_stack reaches line 75
MplsStackMissing_Unchecked(stream, setting) == FALSE

\* line 70
MplsStackMissing(stream, setting) ==
    stream.encapsulation = "Mpls" /\ is_none(setting.mpls_stack)
\* line 75: the two values unwrapped when the encapsulation is Mpls
MplsUnwrapsNone(stream, setting) ==
    /\ stream.encapsulation = "Mpls"
    /\ is_none(setting.mpls_stack) \/ is_none(stream.number_of_lse)
\* line 75 with > for !=: a stack shorter than number_of_lse passes
MplsStackMismatch_TooLongOnly(stream, setting) ==
    /\ stream.encapsulation = "Mpls"
    /\ Len(unwrap(setting.mpls_stack)) > unwrap(stream.number_of_lse)

\* line 75
MplsStackMismatch(stream, setting) ==
    /\ stream.encapsulation = "Mpls"
    /\ Len(unwrap(setting.mpls_stack)) # unwrap(stream.number_of_lse)
\* line 81
SidListMissing(stream, setting) ==
    stream.encapsulation = "SRv6" /\ is_none(setting.sid_list)
\* line 86: the two values unwrapped when the encapsulation is SRv6
Srv6UnwrapsNone(stream, setting) ==
    /\ stream.encapsulation = "SRv6"
    /\ is_none(setting.sid_list) \/ is_none(stream.number_of_srv6_sids)
\* line 86
SidListMismatch(stream, setting) ==
    /\ stream.encapsulation = "SRv6"
    /\ Len(unwrap(setting.sid_list)) # unwrap(stream.number_of_srv6_sids)
\* line 91 with unwrap_or(false): an absent srv6_ip_tunneling counts as false
IpCheckApplies_DefaultFalse(stream) ==
    \/ stream.encapsulation = "SRv6" /\ unwrap_or(stream.srv6_ip_tunneling, FALSE)
    \/ stream.encapsulation # "SRv6"

\* line 91
IpCheckApplies(stream) ==
    \/ stream.encapsulation = "SRv6" /\ unwrap_or(stream.srv6_ip_tunneling, TRUE)
    \/ stream.encapsulation # "SRv6"
\* line 92
IpVersionUnsupported(stream) ==
    /\ stream.ip_version # Some(6)
    /\ stream.ip_version # Some(4)
    /\ ~is_none(stream.ip_version)
\* line 96
Ipv4Missing(stream, setting) == stream.ip_version = Some(4) /\ is_none(setting.ip)
\* line 99
Ipv6Missing(stream, setting) == stream.ip_version = Some(6) /\ is_none(setting.ipv6)

\* lines 91-102
IpChecks(stream, setting) ==
    IF ~IpCheckApplies(stream) THEN Continue
    ELSE IF IpVersionUnsupported(stream)
    THEN Err("Unsupported IP version", stream.stream_id, setting.port)
    ELSE IF Ipv4Missing(stream, setting)
    THEN Err("Missing IPv4 settings", stream.stream_id, setting.port)
    ELSE IF Ipv6Missing(stream, setting)
    THEN Err("Missing IPv6 settings", stream.stream_id, setting.port)
    ELSE Continue

\* lines 63-102, the body of `if setting.stream_id == stream.stream_id`
MatchingChecks(stream, setting) ==
    IF VlanMissing(stream, setting)
    THEN Err("no VLAN settings provided", stream.stream_id, setting.port)
    ELSE IF MplsStackMissing(stream, setting)
    THEN Err("No MPLS stack provided", stream.stream_id, setting.port)
    ELSE IF MplsUnwrapsNone(stream, setting) THEN Panic("unwrap on None")
    ELSE IF MplsStackMismatch(stream, setting)
    THEN Err("number of LSEs does not match MPLS stack", setting.stream_id, 0)
    ELSE IF SidListMissing(stream, setting)
    THEN Err("No SID list provided", stream.stream_id, setting.port)
    ELSE IF Srv6UnwrapsNone(stream, setting) THEN Panic("unwrap on None")
    ELSE IF SidListMismatch(stream, setting)
    THEN Err("number of SIDs does not match SID list", setting.stream_id, 0)
    ELSE IpChecks(stream, setting)

(***************************************************************************)
(* 3. VxLAN checks, lines 107-119: for every setting of the request.       *)
(***************************************************************************)
\* line 108
VxlanMissing(stream, setting) == stream.vxlan /\ is_none(setting.vxlan)
\* line 112
VxlanIpv6(stream) == stream.vxlan /\ stream.ip_version = Some(6)
\* line 117
VxlanSrv6(stream) == stream.vxlan /\ stream.encapsulation = "SRv6"

VxlanChecks(stream, setting) ==
    IF VxlanMissing(stream, setting)
    THEN Err("no VxLAN settings provided", stream.stream_id, 0)
    ELSE IF VxlanIpv6(stream)
    THEN Err("VxLAN with IPv6 is not supported", stream.stream_id, 0)
    ELSE IF VxlanSrv6(stream)
    THEN Err("VxLAN and SRv6 is not supported", stream.stream_id, 0)
    ELSE Continue

(***************************************************************************)
(* The loops, lines 29-121.                                                *)
(***************************************************************************)
\* the comparison of line 62 left out: every setting belongs to every stream
Matches_Any(stream, setting) == TRUE

\* line 62: the setting belongs to the stream
Matches(stream, setting) == setting.stream_id = stream.stream_id

\* the VxLAN checks moved into the `if` of line 62: only the stream's own
\* settings are checked
SettingBody_VxlanScoped(stream, setting) ==
    IF Matches(stream, setting)
    THEN LET r == MatchingChecks(stream, setting)
         IN  IF r # Continue THEN r ELSE VxlanChecks(stream, setting)
    ELSE Continue

\* lines 62-119, one iteration of `for setting in settings.iter()`
SettingBody(stream, setting) ==
    LET r == IF Matches(stream, setting)
             THEN MatchingChecks(stream, setting)
             ELSE Continue
    IN  IF r # Continue THEN r ELSE VxlanChecks(stream, setting)

RECURSIVE SettingLoop(_, _, _)
\* lines 61-120, from the j-th setting on
SettingLoop(stream, sets, j) ==
    IF j > Len(sets) THEN Continue
    ELSE LET r == SettingBody(stream, sets[j])
         IN  IF r # Continue THEN r ELSE SettingLoop(stream, sets, j + 1)

\* lines 30-120, one iteration of `for stream in streams.iter()`
StreamBody(stream, sets, tofino2) ==
    LET r == StructuralChecks(stream, tofino2)
    IN  IF r # Continue THEN r ELSE SettingLoop(stream, sets, 1)

RECURSIVE StreamLoop(_, _, _, _)
\* lines 29-121, from the i-th stream on
StreamLoop(strs, sets, tofino2, i) ==
    IF i > Len(strs) THEN Continue
    ELSE LET r == StreamBody(strs[i], sets, tofino2)
         IN  IF r # Continue THEN r ELSE StreamLoop(strs, sets, tofino2, i + 1)

(***************************************************************************)
(* 4.-6. Checks of the whole request, lines 123-148.                       *)
(***************************************************************************)
RECURSIVE SumU32(_, _, _)
\* line 123, .sum::<u32>(): the frame sizes added one by one from the i-th on,
\* each addition on 32 bits
SumU32(strs, i, acc) ==
    IF i > Len(strs) THEN acc
    ELSE LET a == AddU32(acc.val, strs[i].frame_size)
         IN  SumU32(strs, i + 1,
                    [val |-> a.val, overflow |-> acc.overflow \/ a.overflow])

FrameSum(strs) == SumU32(strs, 1, [val |-> U32(0, 0), overflow |-> FALSE])

\* line 123
BufferExceeded(strs) == GtU32(FrameSum(strs).val, U32(0, MAX_BUFFER_SIZE))
\* line 127 without the exemption of mode Analyze
NoSettings_AnyMode(sets, m) == Len(sets) = 0

\* line 127
NoSettings(sets, m) == Len(sets) = 0 /\ m # "Analyze"
\* line 131
NoStreams(strs, m) == Len(strs) = 0 /\ m # "Analyze"

\* core/traffic_gen_core/helper.rs, calculate_overhead: the bytes the
\* encapsulation headers of a stream add to its frames (a VLAN tag 4, QinQ 8,
\* an LSE 4, IPv6 with segment routing header 48 and 16 for each SID, VxLAN 50)
calculate_overhead(x) ==
    (CASE x.encapsulation = "None" -> 0
       [] x.encapsulation = "Vlan" -> 4
       [] x.encapsulation = "QinQ" -> 8
       [] x.encapsulation = "Mpls" -> 4 * unwrap_or(x.number_of_lse, 0)
       [] x.encapsulation = "SRv6" -> 48 + 16 * unwrap_or(x.number_of_srv6_sids, 0))
    + (IF x.vxlan THEN 50 ELSE 0)

\* line 138: x.frame_size + calculate_overhead(x) + 20, on 32 bits
WireSize(x) ==
    LET a == AddU32(x.frame_size, U32(0, calculate_overhead(x)))
        b == AddU32(a.val, U32(0, 20))
    IN  [val |-> b.val, overflow |-> a.overflow \/ b.overflow]

(***************************************************************************)
(* Rates are f32 in the source.  The model counts them in thousandths, as  *)
(* integers, and lets every term stop at RateCap, which is above both      *)
(* ceilings: traffic rates of the model are whole and not negative, and    *)
(* none of its sums lies within an f32 rounding error of a ceiling.        *)
(***************************************************************************)
RateCap == 1000 * TG_MAX_RATE_TF2 + 1
Saturate(n) == IF n > RateCap THEN RateCap ELSE n

\* line 138, one term of the sum: (...) as f32 * 8 * traffic_rate / 1000
MppsTerm(x) ==
    LET w == WireSize(x).val
    IN  IF x.traffic_rate = 0 THEN 0
        ELSE IF w.hi > 0 THEN RateCap
        ELSE Saturate(w.lo * 8 * x.traffic_rate)

\* line 141, one term of the sum: traffic_rate
RateTerm(x) == Saturate(1000 * x.traffic_rate)

RECURSIVE SumRate(_, _, _)
\* lines 137-142
SumRate(strs, m, i) ==
    IF i > Len(strs) THEN 0
    ELSE Saturate((IF m = "Mpps" THEN MppsTerm(strs[i]) ELSE RateTerm(strs[i]))
                  + SumRate(strs, m, i + 1))

\* line 138: an addition of the Mpps sum leaves the 32 bits
WireSizeOverflows(strs, m) ==
    m = "Mpps" /\ \E i \in 1..Len(strs) : WireSize(strs[i]).overflow

\* line 144
RateExceeded(strs, m, tofino2) ==
    /\ m # "Analyze"
    /\ SumRate(strs, m, 1) > 1000 * (IF tofino2 THEN TG_MAX_RATE_TF2 ELSE TG_MAX_RATE)

\* lines 123-148.  An addition that overflows aborts the call in a build with
\* overflow checks (checks) and wraps in a build without.
AggregateChecks(strs, sets, m, tofino2, checks) ==
    IF FrameSum(strs).overflow /\ checks THEN Panic("attempt to add with overflow")
    ELSE IF BufferExceeded(strs) THEN Err("Sum of packet size too large", 0, 0)
    ELSE IF NoSettings(sets, m) THEN Err("No active streams provided", 0, 0)
    ELSE IF NoStreams(strs, m) THEN Err("No stream provided", 0, 0)
    ELSE IF WireSizeOverflows(strs, m) /\ checks
    THEN Panic("attempt to add with overflow")
    ELSE IF RateExceeded(strs, m, tofino2)
    THEN Err("Traffic rate larger than maximal supported rate", 0, 0)
    ELSE Ok

RECURSIVE StructuralLoop(_, _, _)
\* the structural checks of all streams from the i-th on, on their own
StructuralLoop(strs, tofino2, i) ==
    IF i > Len(strs) THEN Continue
    ELSE LET r == StructuralChecks(strs[i], tofino2)
         IN  IF r # Continue THEN r ELSE StructuralLoop(strs, tofino2, i + 1)

\* validate_request with a first loop of its own for the structural checks:
\* all streams are checked structurally before any setting is looked at
validate_request_StructuralFirst(strs, sets, m, tofino2, checks) ==
    LET s == StructuralLoop(strs, tofino2, 1)
        r == StreamLoop(strs, sets, tofino2, 1)
    IN  IF s # Continue THEN s
        ELSE IF r # Continue THEN r
        ELSE AggregateChecks(strs, sets, m, tofino2, checks)

\* lines 28-150
validate_request(strs, sets, m, tofino2, checks) ==
    LET r == StreamLoop(strs, sets, tofino2, 1)
    IN  IF r # Continue THEN r ELSE AggregateChecks(strs, sets, m, tofino2, checks)

(***************************************************************************)
(* The requests of the model.  A stream's id is its place in the request   *)
(* (stream ids are unique within a request); OrphanId is the id of no      *)
(* stream.                                                                 *)
(***************************************************************************)
OrphanId == MaxStreams + 1

Encapsulations == {"None", "Vlan", "QinQ", "Mpls", "SRv6"}
GenerationModes == {"Rate", "Mpps", "Analyze"}

\* a stream that needs nothing of its settings but an IPv4 setting
PlainStream ==
    [stream_id |-> 1, encapsulation |-> "None", number_of_lse |-> None,
     number_of_srv6_sids |-> None, srv6_ip_tunneling |-> None,
     ip_version |-> Some(4), vxlan |-> FALSE,
     frame_size |-> U32(0, 64), traffic_rate |-> 1]

\* a setting with an IPv4 and an IPv6 config and nothing else
PlainSetting ==
    [stream_id |-> 1, port |-> 1, vlan |-> None, mpls_stack |-> None,
     sid_list |-> None, ip |-> Some("ip"), ipv6 |-> Some("ipv6"), vxlan |-> None]

\* a sequence of n label stack entries, or of n segment identifiers
Entries(n) == [i \in 1..n |-> "entry"]

\* the sequences of at most n streams of S, each with its place as stream_id
StreamSeqs(S, n) ==
    UNION {{[i \in 1..k |-> [f[i] EXCEPT !.stream_id = i]] : f \in [1..k -> S]} :
           k \in 0..n}
\* the sequences of at most n settings of S
SettingSeqs(S, n) == UNION {[1..k -> S] : k \in 0..n}

\* the state before the first call
Start(StreamSet, SettingSet, Modes, Tofino, Checks) ==
    /\ streams \in StreamSeqs(StreamSet, MaxStreams)
    /\ settings \in SettingSeqs(SettingSet, MaxSettings)
    /\ mode \in Modes
    /\ is_tofino2 \in Tofino
    /\ overflow_checks \in Checks
    /\ pc = "call"
    /\ result = Pending
    /\ first = Pending

(***************************************************************************)
(* The caller.                                                             *)
(***************************************************************************)
\* the call of validate_request, lines 28-150
Validate ==
    /\ pc = "call"
    /\ result' = validate_request(streams, settings, mode, is_tofino2, overflow_checks)
    /\ pc' = "returned"
    /\ UNCHANGED <<streams, settings, mode, is_tofino2, overflow_checks, first>>

\* the settings a caller may add for a stream that is not in the request
OrphanSettings ==
    {[stream_id |-> OrphanId, port |-> 2, vlan |-> o, mpls_stack |-> None,
      sid_list |-> None, ip |-> o, ipv6 |-> o, vxlan |-> v] :
        o \in {None, Some("cfg")}, v \in {None, Some("vxlan")}}

\* an accepted request is submitted again, once, with one more setting, which
\* names no stream of the request
Resubmit ==
    /\ pc = "returned"
    /\ first = Pending
    /\ result = Ok
    /\ Len(settings) < MaxSettings
    /\ \E s \in OrphanSettings : settings' = Append(settings, s)
    /\ first' = result
    /\ result' = Pending
    /\ pc' = "call"
    /\ UNCHANGED <<streams, mode, is_tofino2, overflow_checks>>

Next == Validate \/ Resubmit

(***************************************************************************)
(* VxLAN streams: with and without IPv6 and SRv6, over settings with and   *)
(* without a VxLAN config.                                                 *)
(***************************************************************************)
VxlanStreams ==
    {[PlainStream EXCEPT !.encapsulation = e, !.number_of_srv6_sids = n,
                         !.ip_version = Some(v), !.vxlan = x] :
        <<e, n>> \in {<<"None", None>>, <<"SRv6", Some(1)>>},
        v \in {4, 6}, x \in BOOLEAN}
VxlanSettings ==
    {[PlainSetting EXCEPT !.stream_id = id, !.sid_list = Some(Entries(1)),
                          !.vxlan = x] :
        id \in {1, 2}, x \in {None, Some("vxlan")}}

InitVxlan == Start(VxlanStreams, VxlanSettings, GenerationModes, BOOLEAN, {FALSE})
SpecVxlan == InitVxlan /\ [][Next]_vars

(***************************************************************************)
(* SRv6 streams with every kind of SID count, beside an MPLS stream that   *)
(* fails its own structural check and a plain stream, on both targets.     *)
(***************************************************************************)
Srv6Streams ==
    {[PlainStream EXCEPT !.encapsulation = "SRv6", !.number_of_srv6_sids = n] :
        n \in {None, Some(0), Some(2), Some(MAX_NUM_SRV6_SIDS + 1)}}
    \cup {PlainStream, [PlainStream EXCEPT !.encapsulation = "Mpls"]}
Srv6Settings ==
    {[PlainSetting EXCEPT !.sid_list = l] : l \in {None, Some(Entries(2))}}

InitSrv6 == Start(Srv6Streams, Srv6Settings, GenerationModes, BOOLEAN, {FALSE})
SpecSrv6 == InitSrv6 /\ [][Next]_vars

(***************************************************************************)
(* MPLS streams with a valid number of LSEs, within and above the rate     *)
(* ceiling, beside a VLAN stream; settings of the first two streams with   *)
(* no stack, a stack of 2 and a stack of 3, with and without IPv4 config.  *)
(***************************************************************************)
MplsStreams ==
    {[PlainStream EXCEPT !.encapsulation = "Mpls", !.number_of_lse = Some(n),
                         !.traffic_rate = r] :
        n \in {2, 3}, r \in {1, TG_MAX_RATE + 1}}
    \cup {[PlainStream EXCEPT !.encapsulation = "Vlan"]}
MplsSettings ==
    {[PlainSetting EXCEPT !.stream_id = id, !.mpls_stack = st[1], !.ip = st[2]] :
        id \in {1, 2},
        st \in {<<None, Some("ip")>>, <<Some(Entries(2)), Some("ip")>>,
                <<Some(Entries(3)), Some("ip")>>, <<Some(Entries(3)), None>>}}

InitMpls == Start(MplsStreams, MplsSettings, {"Rate", "Analyze"}, {FALSE}, {FALSE})
SpecMpls == InitMpls /\ [][Next]_vars

(***************************************************************************)
(* Every encapsulation with number_of_lse and number_of_srv6_sids present  *)
(* and absent, over settings with mpls_stack and sid_list present and      *)
(* absent.                                                                 *)
(***************************************************************************)
OptionStreams ==
    {[PlainStream EXCEPT !.encapsulation = e, !.number_of_lse = n,
                         !.number_of_srv6_sids = m] :
        e \in {"Mpls", "SRv6"}, n \in {None, Some(2)}, m \in {None, Some(2)}}
    \cup {[PlainStream EXCEPT !.encapsulation = e, !.number_of_lse = n,
                              !.number_of_srv6_sids = n] :
             e \in Encapsulations \ {"Mpls", "SRv6"}, n \in {None, Some(2)}}
OptionSettings ==
    {[PlainSetting EXCEPT !.vlan = Some("vlan"), !.mpls_stack = st, !.sid_list = l] :
        st \in {None, Some(Entries(2))}, l \in {None, Some(Entries(2))}}

InitOptions == Start(OptionStreams, OptionSettings, {"Rate"}, {TRUE}, {FALSE})
SpecOptions == InitOptions /\ [][Next]_vars

(***************************************************************************)
(* The IP versions 4, 5 and 6 on SRv6 streams with IP tunneling absent,    *)
(* true and false, and absent, 4 and 5 on a stream without encapsulation,  *)
(* over settings with and without IPv4 and IPv6 config.                    *)
(***************************************************************************)
IpStreams ==
    {[PlainStream EXCEPT !.encapsulation = "SRv6", !.number_of_srv6_sids = Some(1),
                         !.srv6_ip_tunneling = tv[1], !.ip_version = tv[2]] :
        tv \in ({None} \X {Some(5), Some(6)})
                \cup ({Some(TRUE)} \X {Some(4), Some(5)})
                \cup ({Some(FALSE)} \X {Some(4), Some(5), Some(6)})}
    \cup {[PlainStream EXCEPT !.ip_version = v] : v \in {None, Some(4), Some(5)}}
IpSettings ==
    {[PlainSetting EXCEPT !.stream_id = id, !.sid_list = Some(Entries(1)),
                          !.ip = a[1], !.ipv6 = a[2]] :
        id \in {1, 2},
        a \in {<<None, None>>, <<Some("ip"), None>>, <<None, Some("ipv6")>>}}

InitIp == Start(IpStreams, IpSettings, {"Rate"}, {TRUE}, {FALSE})
SpecIp == InitIp /\ [][Next]_vars

(***************************************************************************)
(* One stream for each phase of the validation: a valid one, one that      *)
(* fails its structural check, one that needs a VLAN config, one that      *)
(* needs a VxLAN config, one that exceeds the buffer and one that exceeds  *)
(* the rate ceiling; no streams and no settings included, in every mode.   *)
(***************************************************************************)
OrderStreams ==
    {PlainStream,
     [PlainStream EXCEPT !.encapsulation = "Mpls"],
     [PlainStream EXCEPT !.encapsulation = "Vlan"],
     [PlainStream EXCEPT !.vxlan = TRUE],
     [PlainStream EXCEPT !.frame_size = U32(0, MAX_BUFFER_SIZE + 1)],
     [PlainStream EXCEPT !.traffic_rate = TG_MAX_RATE + 1]}
OrderSettings ==
    {[PlainSetting EXCEPT !.stream_id = id, !.vlan = a[1], !.vxlan = a[2]] :
        id \in {1, 2},
        a \in {<<None, None>>, <<Some("vlan"), None>>, <<Some("vlan"), Some("vxlan")>>}}

InitOrder == Start(OrderStreams, OrderSettings, GenerationModes, {FALSE}, {FALSE})
SpecOrder == InitOrder /\ [][Next]_vars

(***************************************************************************)
(* Frame sizes over the whole range of u32, in builds with and without     *)
(* overflow checks.                                                        *)
(***************************************************************************)
FrameStreams ==
    {[PlainStream EXCEPT !.frame_size = f] :
        f \in {U32(0, 64), U32(0, MAX_BUFFER_SIZE), U32(0, MAX_BUFFER_SIZE + 1),
               U32(Limb \div 2, 0), U32(Limb - 1, Limb - 1)}}
FrameSettings == {PlainSetting}

InitFrames == Start(FrameStreams, FrameSettings, GenerationModes, {FALSE}, BOOLEAN)
SpecFrames == InitFrames /\ [][Next]_vars

(***************************************************************************)
(* Claims.                                                                 *)
(***************************************************************************)
Returned == pc = "returned"
Rejected == result.kind = "Err"
StreamIdx == 1..Len(streams)
SettingIdx == 1..Len(settings)

\* C1: every request with a stream that has vxlan = true and ip_version = 6 or
\* SRv6 encapsulation is rejected, whatever the settings (none included), the
\* mode and is_tofino2 are.
C1_VxlanExclusive ==
    (/\ Returned
     /\ \E i \in StreamIdx :
            /\ streams[i].vxlan
            /\ streams[i].ip_version = Some(6) \/ streams[i].encapsulation = "SRv6")
    => Rejected

\* the checks that come before the VxLAN check of stream i against setting j pass
C8_NoEarlierFailure(i, j) ==
    /\ \A k \in 1..(i - 1) : StreamBody(streams[k], settings, is_tofino2) = Continue
    /\ StructuralChecks(streams[i], is_tofino2) = Continue
    /\ \A l \in 1..(j - 1) : SettingBody(streams[i], settings[l]) = Continue
    /\ Matches(streams[i], settings[j])
         => MatchingChecks(streams[i], settings[j]) = Continue

\* C8: when a stream has vxlan = true and no earlier check fails, the first
\* setting of the request without a vxlan config, whichever stream it belongs
\* to, rejects the request with the no-VxLAN-settings reason naming that stream.
C8_VxlanSpansAllSettings ==
    Returned =>
        \A i \in StreamIdx, j \in SettingIdx :
            (/\ streams[i].vxlan
             /\ is_none(settings[j].vxlan)
             /\ C8_NoEarlierFailure(i, j))
            => result = Err("no VxLAN settings provided", streams[i].stream_id, 0)

\* C8's case: the second setting, of another stream, lacks the vxlan config
C8_Witness ==
    /\ Returned
    /\ \E i \in StreamIdx :
           /\ streams[i].vxlan
           /\ Len(settings) = 2
           /\ ~is_none(settings[1].vxlan)
           /\ is_none(settings[2].vxlan)
           /\ settings[2].stream_id # streams[i].stream_id
           /\ C8_NoEarlierFailure(i, 2)
           /\ result = Err("no VxLAN settings provided", streams[i].stream_id, 0)

\* the request was accepted and has been validated again with one more setting,
\* the last one, which names no stream
C9_Resubmitted ==
    /\ Returned
    /\ first = Ok
    /\ \A i \in StreamIdx : streams[i].stream_id # settings[Len(settings)].stream_id

\* C9, as claimed: an accepted request is still accepted with one more setting
\* that names no stream, whatever the fields of that setting are.
C9_OrphanNeverFlagged == C9_Resubmitted => result = Ok

\* a VxLAN check of lines 108-119 fails for stream i against the added setting
C9_VxlanFails(i) ==
    /\ streams[i].vxlan
    /\ \/ is_none(settings[Len(settings)].vxlan)
       \/ streams[i].ip_version = Some(6)
       \/ streams[i].encapsulation = "SRv6"

\* C9, amended: the added setting is subject to the VxLAN checks and to no
\* other: the request is rejected, with a VxLAN reason, if and only if some
\* stream has vxlan = true and the added setting has no vxlan config or that
\* stream has ip_version = 6 or SRv6 encapsulation; otherwise it is accepted.
C9_OrphanOnlyVxlanChecked ==
    C9_Resubmitted =>
        IF \E i \in StreamIdx : C9_VxlanFails(i)
        THEN /\ Rejected
             /\ result.reason \in {"no VxLAN settings provided",
                                   "VxLAN with IPv6 is not supported",
                                   "VxLAN and SRv6 is not supported"}
        ELSE result = Ok

\* C9's case: a request with a VxLAN stream, accepted again with an added
\* setting that carries a vxlan config
C9_Witness ==
    /\ C9_Resubmitted
    /\ \E i \in StreamIdx : streams[i].vxlan
    /\ Len(settings) > 1
    /\ result = Ok

\* C2: a request with an SRv6 stream is rejected when is_tofino2 is false,
\* whatever else it holds; when the SRv6 stream is the first stream, the reason
\* is the SRv6-unsupported one, whatever number_of_srv6_sids is.
C2_Srv6NeedsTofino2 ==
    (Returned /\ ~is_tofino2) =>
        /\ (\E i \in StreamIdx : streams[i].encapsulation = "SRv6") => Rejected
        /\ (Len(streams) > 0 /\ streams[1].encapsulation = "SRv6")
             => result = Err("SRv6 is only supported on Tofino2", 0, 0)

\* C2's case: the first stream is SRv6 without a valid SID count, not on Tofino2
C2_Witness ==
    /\ Returned
    /\ ~is_tofino2
    /\ Len(streams) > 0
    /\ streams[1].encapsulation = "SRv6"
    /\ streams[1].number_of_srv6_sids \in {None, Some(0), Some(MAX_NUM_SRV6_SIDS + 1)}
    /\ result = Err("SRv6 is only supported on Tofino2", 0, 0)

\* stream i is an MPLS stream with a valid number of LSEs
C3_MplsValidLse(i) ==
    /\ streams[i].encapsulation = "Mpls"
    /\ ~is_none(streams[i].number_of_lse)
    /\ unwrap(streams[i].number_of_lse) > 0
    /\ unwrap(streams[i].number_of_lse) <= MAX_NUM_MPLS_LABEL

\* no check before the MPLS checks of stream i against setting j fails
C3_Reached(i, j) ==
    /\ \A k \in 1..(i - 1) : StreamBody(streams[k], settings, is_tofino2) = Continue
    /\ \A l \in 1..(j - 1) : SettingBody(streams[i], settings[l]) = Continue

RECURSIVE C3_RateSum(_)
C3_RateSum(i) == IF i = 0 THEN 0 ELSE streams[i].traffic_rate + C3_RateSum(i - 1)
RECURSIVE C3_FrameSum(_)
C3_FrameSum(i) == IF i = 0 THEN 0 ELSE streams[i].frame_size.lo + C3_FrameSum(i - 1)

\* a request as in Scenario A: MPLS streams over IPv4 with valid numbers of
\* LSEs, each setting of a stream with a stack of that length and an IPv4
\* config, mode Rate, frame sizes and rates within the limits
C3_AllValid ==
    /\ mode = "Rate"
    /\ Len(streams) > 0
    /\ Len(settings) > 0
    /\ \A i \in StreamIdx :
           /\ C3_MplsValidLse(i)
           /\ streams[i].ip_version = Some(4)
           /\ ~streams[i].vxlan
           /\ streams[i].frame_size.hi = 0
           /\ \A j \in SettingIdx :
                  settings[j].stream_id = streams[i].stream_id
                  => /\ ~is_none(settings[j].mpls_stack)
                     /\ Len(unwrap(settings[j].mpls_stack))
                          = unwrap(streams[i].number_of_lse)
                     /\ ~is_none(settings[j].ip)
    /\ C3_FrameSum(Len(streams)) <= MAX_BUFFER_SIZE
    /\ C3_RateSum(Len(streams)) <= (IF is_tofino2 THEN TG_MAX_RATE_TF2 ELSE TG_MAX_RATE)

C3_WitnessMismatch ==
    /\ Returned
    /\ Len(settings) = 2
    /\ \E i \in StreamIdx :
           /\ C3_MplsValidLse(i)
           /\ settings[2].stream_id = streams[i].stream_id
           /\ ~is_none(settings[2].mpls_stack)
           /\ Len(unwrap(settings[2].mpls_stack)) < unwrap(streams[i].number_of_lse)
           /\ C3_Reached(i, 2)
           /\ result = Err("number of LSEs does not match MPLS stack",
                           streams[i].stream_id, 0)

\* C10: no unwrap() of validate_request meets None: the call ends in accept
\* or reject for every combination of present and absent number_of_lse,
\* number_of_srv6_sids, mpls_stack and sid_list under every encapsulation.
C10_NoUnwrapOfNone ==
    Returned => /\ result # Panic("unwrap on None")
                /\ result.kind \in {"Ok", "Err"}

\* C10's case: an MPLS stream with number_of_lse present and number_of_srv6_sids
\* absent, and a setting of it with mpls_stack present and sid_list absent:
\* line 75 unwraps two present values, the guard of line 86 is false
C10_Witness ==
    /\ Returned
    /\ Len(streams) > 0
    /\ Len(settings) > 0
    /\ streams[1].encapsulation = "Mpls"
    /\ ~is_none(streams[1].number_of_lse)
    /\ is_none(streams[1].number_of_srv6_sids)
    /\ settings[1].stream_id = streams[1].stream_id
    /\ ~is_none(settings[1].mpls_stack)
    /\ is_none(settings[1].sid_list)
    /\ result = Ok

\* the IP-addressing check of stream i against setting j is reached
C7_Reached(i, j) ==
    /\ settings[j].stream_id = streams[i].stream_id
    /\ StructuralChecks(streams[i], is_tofino2) = Continue
    /\ \A l \in 1..(j - 1) : SettingBody(streams[i], settings[l]) = Continue
    /\ \A k \in 1..(i - 1) : StreamBody(streams[k], settings, is_tofino2) = Continue
    /\ ~VlanMissing(streams[i], settings[j])
    /\ ~MplsStackMissing(streams[i], settings[j])
    /\ ~MplsStackMismatch(streams[i], settings[j])
    /\ ~SidListMissing(streams[i], settings[j])
    /\ ~SidListMismatch(streams[i], settings[j])

C7_IpReasons ==
    {"Unsupported IP version", "Missing IPv4 settings", "Missing IPv6 settings"}

\* C7: where the IP-addressing check is reached for a stream and one of its
\* settings: if the stream is not SRv6, or is SRv6 with srv6_ip_tunneling true
\* or absent, an ip_version other than 4 and 6, ip_version 4 without ip
\* setting and ip_version 6 without ipv6 setting are rejected; if it is SRv6
\* with srv6_ip_tunneling = false, none of the three is.
C7_IpAddressing ==
    Returned =>
        \A i \in StreamIdx, j \in SettingIdx :
            C7_Reached(i, j) =>
                LET s == streams[i]
                    t == settings[j]
                IN  IF s.encapsulation = "SRv6" /\ s.srv6_ip_tunneling = Some(FALSE)
                    THEN ~(/\ result.reason \in C7_IpReasons
                           /\ result.stream_id = s.stream_id)
                    ELSE /\ (~is_none(s.ip_version) /\ unwrap(s.ip_version) \notin {4, 6})
                              => result = Err("Unsupported IP version", s.stream_id, t.port)
                         /\ (s.ip_version = Some(4) /\ is_none(t.ip))
                              => result = Err("Missing IPv4 settings", s.stream_id, t.port)
                         /\ (s.ip_version = Some(6) /\ is_none(t.ipv6))
                              => result = Err("Missing IPv6 settings", s.stream_id, t.port)

\* C7's case: an SRv6 stream with srv6_ip_tunneling absent and ip_version 6 is
\* rejected for its setting without ipv6 config
C7_Witness ==
    /\ Returned
    /\ \E i \in StreamIdx, j \in SettingIdx :
           /\ C7_Reached(i, j)
           /\ streams[i].encapsulation = "SRv6"
           /\ is_none(streams[i].srv6_ip_tunneling)
           /\ streams[i].ip_version = Some(6)
           /\ is_none(settings[j].ipv6)
           /\ result = Err("Missing IPv6 settings", streams[i].stream_id, settings[j].port)

\* C7's other case: an SRv6 stream without IP tunneling and with ip_version 5,
\* whose setting has neither ip nor ipv6 config, is accepted
C7_WitnessNoTunneling ==
    /\ Returned
    /\ result = Ok
    /\ \E i \in StreamIdx, j \in SettingIdx :
           /\ C7_Reached(i, j)
           /\ streams[i].srv6_ip_tunneling = Some(FALSE)
           /\ streams[i].ip_version = Some(5)
           /\ is_none(settings[j].ip)
           /\ is_none(settings[j].ipv6)

RECURSIVE C4_SumHi(_)
C4_SumHi(i) == IF i = 0 THEN 0 ELSE streams[i].frame_size.hi + C4_SumHi(i - 1)
RECURSIVE C4_SumLo(_)
C4_SumLo(i) == IF i = 0 THEN 0 ELSE streams[i].frame_size.lo + C4_SumLo(i - 1)

\* the sum of the frame sizes, as a number, exceeds MAX_BUFFER_SIZE (which is
\* below 2^16: the sum exceeds it when a high limb is set or the low limbs do)
C4_SumExceeds ==
    C4_SumHi(Len(streams)) > 0 \/ C4_SumLo(Len(streams)) > MAX_BUFFER_SIZE

\* C4: a request that passes the per-stream and per-setting checks and whose
\* frame sizes sum to more than MAX_BUFFER_SIZE is rejected with the
\* buffer-size reason, in every mode, also when the sum is 2^32 or more.
C4_BufferSizeChecked ==
    (/\ Returned
     /\ StreamLoop(streams, settings, is_tofino2, 1) = Continue
     /\ C4_SumExceeds)
    => result = Err("Sum of packet size too large", 0, 0)

\* The violations of a request, each at its place in the evaluation: stream i,
\* setting j (0: none), phase (1 structural, 2 cross-consistency, 3 VxLAN);
\* the checks of the whole request at stream Len(streams) + 1, phase 4, in
\* the order of j.
C5_Found(i, j, ph, r) == [stream |-> i, setting |-> j, phase |-> ph, res |-> r]

C5_Violations ==
    {v \in {C5_Found(i, 0, 1, StructuralChecks(streams[i], is_tofino2)) :
               i \in StreamIdx}
        \cup {C5_Found(ij[1], ij[2], 2,
                       IF streams[ij[1]].stream_id = settings[ij[2]].stream_id
                       THEN MatchingChecks(streams[ij[1]], settings[ij[2]])
                       ELSE Continue) : ij \in StreamIdx \X SettingIdx}
        \cup {C5_Found(ij[1], ij[2], 3, VxlanChecks(streams[ij[1]], settings[ij[2]])) :
                 ij \in StreamIdx \X SettingIdx}
        \cup {C5_Found(Len(streams) + 1, 1, 4,
                       IF C4_SumExceeds
                       THEN Err("Sum of packet size too large", 0, 0) ELSE Continue),
              C5_Found(Len(streams) + 1, 2, 4,
                       IF Len(settings) = 0 /\ mode # "Analyze"
                       THEN Err("No active streams provided", 0, 0) ELSE Continue),
              C5_Found(Len(streams) + 1, 3, 4,
                       IF Len(streams) = 0 /\ mode # "Analyze"
                       THEN Err("No stream provided", 0, 0) ELSE Continue),
              C5_Found(Len(streams) + 1, 4, 4,
                       IF RateExceeded(streams, mode, is_tofino2)
                       THEN Err("Traffic rate larger than maximal supported rate", 0, 0)
                       ELSE Continue)} :
       v.res # Continue}

\* v comes before w as the code iterates: stream by stream, and for a stream
\* its structural checks, then setting by setting the cross-consistency
\* checks and the VxLAN checks
C5_CodeOrder(v, w) ==
    \/ v.stream < w.stream
    \/ v.stream = w.stream /\ v.setting < w.setting
    \/ v.stream = w.stream /\ v.setting = w.setting /\ v.phase < w.phase

\* v comes before w phase by phase: all structural checks, then all
\* cross-consistency checks, then all VxLAN checks, then the whole request
C5_PhaseOrder(v, w) ==
    \/ v.phase < w.phase
    \/ v.phase = w.phase /\ C5_CodeOrder(v, w)

\* C5, as claimed: the one reason reported is that of the first violation
\* phase by phase; of two violations of different phases, on whichever streams
\* and settings, the one of the earlier phase is reported.
C5_FirstByPhase ==
    Returned =>
        IF C5_Violations = {} THEN result = Ok
        ELSE \E v \in C5_Violations :
                 /\ result = v.res
                 /\ \A w \in C5_Violations : w = v \/ C5_PhaseOrder(v, w)

\* C5, amended: the one reason reported is that of the first violation as
\* the code iterates: the phases are ordered within one stream and one
\* setting, and every check on an earlier stream, or on an earlier setting of
\* the same stream, comes before every check on a later one; the checks of the
\* whole request come last, in their order.
C5_FirstInCodeOrder ==
    Returned =>
        IF C5_Violations = {} THEN result = Ok
        ELSE \E v \in C5_Violations :
                 /\ result = v.res
                 /\ \A w \in C5_Violations : w = v \/ C5_CodeOrder(v, w)

\* C5's case: the first stream violates a cross-consistency rule, the second a
\* structural rule, and the reason of the first stream is reported
C5_Witness ==
    /\ Returned
    /\ Len(streams) = 2
    /\ \E v \in C5_Violations : v.stream = 1 /\ v.phase = 2 /\ result = v.res
    /\ \E w \in C5_Violations : w.stream = 2 /\ w.phase = 1

\* the request passes the per-stream, per-setting and frame-size checks
C6_PassesEarlierChecks ==
    /\ StreamLoop(streams, settings, is_tofino2, 1) = Continue
    /\ ~C4_SumExceeds

\* C6: of a request that passes the per-stream, per-setting and frame-size
\* checks, in mode Rate or Mpps empty settings are rejected with the
\* no-active-streams reason and empty streams are rejected, with the
\* no-stream reason when there are settings; in mode Analyze neither is a
\* reason of rejection, and the request without streams and settings is
\* accepted.
C6_NonEmpty ==
    (Returned /\ C6_PassesEarlierChecks) =>
        IF mode # "Analyze"
        THEN /\ Len(settings) = 0 => result = Err("No active streams provided", 0, 0)
             /\ Len(streams) = 0 => Rejected
             /\ (Len(streams) = 0 /\ Len(settings) > 0)
                  => result = Err("No stream provided", 0, 0)
        ELSE /\ result.reason \notin {"No active streams provided", "No stream provided"}
             /\ (Len(streams) = 0 /\ Len(settings) = 0) => result = Ok

\* C6's case: settings without streams in mode Mpps
C6_Witness ==
    /\ Returned
    /\ C6_PassesEarlierChecks
    /\ mode = "Mpps"
    /\ Len(streams) = 0
    /\ Len(settings) > 0
    /\ result = Err("No stream provided", 0, 0)

\* C6's other cases: streams without settings in mode Rate; Scenario C
C6_WitnessNoSettings ==
    /\ Returned
    /\ C6_PassesEarlierChecks
    /\ mode = "Rate"
    /\ Len(streams) > 0
    /\ Len(settings) = 0
    /\ result = Err("No active streams provided", 0, 0)
C6_WitnessScenarioC ==
    /\ Returned
    /\ mode = "Analyze"
    /\ Len(streams) = 0
    /\ Len(settings) = 0
    /\ result = Ok

====
